---- MODULE Spec2Model ----
(***************************************************************************)
(* Model of src/cv_and/and_lab_5.py: convolve, detect_fast,                *)
(* harris_detector, calculate_orientation and brief_descriptor.            *)
(*                                                                         *)
(* Every function of the file is a pure function of its arguments, so each *)
(* one gets a specification of its own: Init draws the arguments of one    *)
(* call from bounded sets (pc = "call"), and the single action runs the    *)
(* whole function body and stores what it returns (pc = "return").         *)
(*                                                                         *)
(* Numbers.  Intensities are integers.  A float in the source is kept      *)
(* exact as a ratio of integers: a kernel is its grid of numerators over a *)
(* common denominator, the Harris constant k = 0.05 is 1/HarrisKInv, and   *)
(* an angle is the integer direction <<c, s>> it points to (cos and sin    *)
(* are c/sqrt(c*c+s*s) and s/sqrt(c*c+s*s)).                               *)
(***************************************************************************)
EXTENDS Integers, Sequences, FiniteSets, TLC

VARIABLES
    fn,               \* the function being called
    pc,               \* "call": the arguments are bound; "return": the body has run
    args,             \* the call's arguments, a record with the source's parameter names
    ret,              \* the returned value (None before the return)
    raised,           \* the exception the call ended with ("none": it returned normally)
    random_points,    \* brief_descriptor's local random_points (line 132)
    reads             \* the grid cells calculate_orientation sliced into patches

vars == <<fn, pc, args, ret, raised, random_points, reads>>

None == [none |-> TRUE]

----------------------------------------------------------------------------
(* Arithmetic helpers *)

Abs(a) == IF a < 0 THEN -a ELSE a

Min(a, b) == IF a < b THEN a ELSE b

Max(a, b) == IF a > b THEN a ELSE b

RECURSIVE GCD(_, _)
GCD(a, b) == IF b = 0 THEN a ELSE GCD(b, a % b)

RECURSIVE SumTo(_, _)
\* f[0] + ... + f[n-1]
SumTo(f, n) == IF n = 0 THEN 0 ELSE f[n - 1] + SumTo(f, n - 1)

\* np.sum over a rows x cols array whose cell <<r, c>> holds f[<<r, c>>]
SumCells(rows, cols, f) ==
    SumTo([k \in 0 .. rows * cols - 1 |-> f[<<k \div cols, k % cols>>]], rows * cols)

RECURSIVE SeqsUpTo(_, _)
\* every sequence over S of length at most n
SeqsUpTo(S, n) ==
    IF n = 0 THEN {<<>>}
    ELSE LET shorter == SeqsUpTo(S, n - 1)
         IN  shorter \cup {Append(s, x) : s \in {t \in shorter : Len(t) = n - 1}, x \in S}

----------------------------------------------------------------------------
(* Grids: a 2D numpy array is [rows, cols, px], px indexed by <<row, col>> *)

Cells(rows, cols) == (0 .. rows - 1) \X (0 .. cols - 1)

Grid(rows, cols, px) == [rows |-> rows, cols |-> cols, px |-> px]

----------------------------------------------------------------------------
(* convolve(image, kernel), lines 22-35 *)

MaxConvDim == 2     \* image height and width are 1 .. MaxConvDim
MaxVal == 2         \* the constant of a constant-valued image is ValStep * (0 .. MaxVal)
ValStep == 7        \* 0, 7, 14: integer intensities of a uint8 image
MaxKernel == 3      \* kernel height and width are 1 .. MaxKernel (even ones included)
MaxTaps == 3        \* a kernel has at most MaxTaps non-zero weights
MaxDen == 3         \* the weights are 1/den, den in 1 .. MaxDen

RECURSIVE SubsetsUpTo(_, _)
\* the subsets of S with at most n elements
SubsetsUpTo(S, n) ==
    IF n = 0 THEN {{}}
    ELSE LET smaller == SubsetsUpTo(S, n - 1)
         IN  smaller \cup {T \cup {x} : T \in smaller, x \in S}

\* the images convolve is called with: constant grids and one ramp per shape
ConvImages ==
    UNION {
        {Grid(h, w, [rc \in Cells(h, w) |-> ValStep * v]) : v \in 0 .. MaxVal}
            \cup {Grid(h, w, [rc \in Cells(h, w) |-> rc[1] * w + rc[2]])}
        : h \in 1 .. MaxConvDim, w \in 1 .. MaxConvDim }

\* the kernels: the float 1/den on the taps, 0 elsewhere (px holds the numerators)
ConvKernels ==
    UNION {
        {[rows |-> kh, cols |-> kw, den |-> d,
          px |-> [uv \in Cells(kh, kw) |-> IF uv \in taps THEN 1 ELSE 0]]
            : taps \in SubsetsUpTo(Cells(kh, kw), MaxTaps), d \in 1 .. MaxDen}
        : kh \in 1 .. MaxKernel, kw \in 1 .. MaxKernel }

\* np.pad(image, ..., mode="reflect"): the image index that position i of an axis of
\* length n mirrors, i counted from the image's first cell (i < 0 and i >= n are padding);
\* an axis of length 1 is padded with its only value
ReflectIndex(i, n) ==
    IF n = 1 THEN 0
    ELSE LET p == 2 * (n - 1)
             m == i % p
         IN  IF m < n THEN m ELSE p - m

\* padded_image[r, c]
PaddedAt(image, pad_h, pad_w, r, c) ==
    image.px[<<ReflectIndex(r - pad_h, image.rows), ReflectIndex(c - pad_w, image.cols)>>]

\* 1/den is a float without rounding: den is a power of two
IsPowerOfTwo(den) == \E e \in 0 .. den : 2 ^ e = den

\* np.sum(region * kernel) is a float64.  With weights k/den it is the exact sum num/den
\* when every product and partial sum is exact (den a power of two, or nothing but zeros
\* summed); otherwise IEEE rounding leaves it on the exact value (0) or on a float just
\* below (-1) or just above (1) it.  Which of the three depends on the operands' bits:
\* three weights 1/3 and the intensity 7 or 14 give a sum just below 7 or 14.
RoundingOutcomes(image, kernel) ==
    IF IsPowerOfTwo(kernel.den) THEN {0} ELSE {-1, 0, 1}

\* output[i, j] = <float>: output is np.zeros_like(image) (line 29), of the image's
\* integer dtype, so the float is cut toward zero when it is stored (line 34); the float
\* is num/den moved by the rounding outcome err when it is not 0
StoreAsInt(num, den, err) ==
    LET q == IF num >= 0 THEN num \div den ELSE -((-num) \div den)
    IN  IF num % den = 0 /\ num > 0 /\ err < 0 THEN q - 1
        ELSE IF num % den = 0 /\ num < 0 /\ err > 0 THEN q + 1
        ELSE q

\* the body of convolve: no check of the kernel's shape, no exception
convolve(image, kernel, err) ==
    LET pad_h == kernel.rows \div 2
        pad_w == kernel.cols \div 2
        \* np.sum(region * kernel), region = padded_image[i:i+kernel_height, j:j+kernel_width]
        region_sum(i, j) ==
            SumCells(kernel.rows, kernel.cols,
                     [uv \in Cells(kernel.rows, kernel.cols) |->
                        PaddedAt(image, pad_h, pad_w, i + uv[1], j + uv[2]) * kernel.px[uv]])
    IN  Grid(image.rows, image.cols,
             [ij \in Cells(image.rows, image.cols) |->
                StoreAsInt(region_sum(ij[1], ij[2]), kernel.den, err)])

InitConv ==
    /\ fn = "convolve"
    /\ pc = "call"
    /\ args \in [image : ConvImages, kernel : ConvKernels]
    /\ ret = None
    /\ raised = "none"
    /\ random_points = <<>>
    /\ reads = {}

Convolve ==
    /\ fn = "convolve"
    /\ pc = "call"
    /\ \E err \in RoundingOutcomes(args.image, args.kernel) :
          ret' = convolve(args.image, args.kernel, err)
    /\ pc' = "return"
    /\ UNCHANGED <<fn, args, raised, random_points, reads>>

NextConv == Convolve

SpecConv == InitConv /\ [][NextConv]_vars

KernelIsOdd(kernel) == kernel.rows % 2 = 1 /\ kernel.cols % 2 = 1

KernelSum(kernel) == SumCells(kernel.rows, kernel.cols, kernel.px)

IsConstant(image) == \A a \in DOMAIN image.px, b \in DOMAIN image.px : image.px[a] = image.px[b]

IsGridOfShape(g, rows, cols) ==
    /\ g # None
    /\ g.rows = rows /\ g.cols = cols
    /\ DOMAIN g.px = Cells(rows, cols)

\* C9: convolve rejects a kernel with an even height or width with InvalidKernelShape
\* and returns no grid for that call; for a kernel with odd height and width it returns
\* an H x W grid without error.
C9_EvenKernelRejected ==
    (fn = "convolve" /\ pc = "return") =>
        IF KernelIsOdd(args.kernel)
        THEN raised = "none" /\ IsGridOfShape(ret, args.image.rows, args.image.cols)
        ELSE raised = "InvalidKernelShape" /\ ret = None

\* C10: for an odd kernel whose weights sum to 1 and a constant-valued H x W image,
\* convolve returns the same constant H x W grid, border cells included: each output
\* cell is constant * sum(kernel).
C10_ConstantPreserved ==
    (/\ fn = "convolve" /\ pc = "return"
     /\ KernelIsOdd(args.kernel)
     /\ KernelSum(args.kernel) = args.kernel.den
     /\ IsConstant(args.image))
        => ret = args.image

----------------------------------------------------------------------------
(* detect_fast(image, threshold), lines 87-125 *)

FastRows == 7       \* image height: one row of interior pixels
MaxFastCols == 8    \* image width is 7 .. MaxFastCols: one or two interior pixels per row
Mid == 100          \* the intensity of the centre pixel and of the background
Step == 50          \* a sample is Mid, Mid +- Step or Mid +- the threshold
FastThreshold == 30 \* the threshold argument

\* bresenham_circle (lines 94-97), each entry unpacked as (dy, dx) at lines 107 and 116
bresenham_circle ==
    << <<0, -3>>, <<1, -3>>, <<2, -2>>, <<3, -1>>,
       <<3, 0>>, <<3, 1>>, <<2, 2>>, <<1, 3>>,
       <<0, 3>>, <<-1, 3>>, <<-2, 2>>, <<-3, 1>>,
       <<-3, 0>>, <<-3, -1>>, <<-2, -2>>, <<-1, -3>> >>

\* the circle index 0 .. 15 (Python) of each offset <<dy, dx>> of the 7 x 7 window, or -1
CircleIndex ==
    [d \in (-3 .. 3) \X (-3 .. 3) |->
        IF \E i \in 1 .. 16 : bresenham_circle[i] = d
        THEN (CHOOSE i \in 1 .. 16 : bresenham_circle[i] = d) - 1
        ELSE -1]

CircleIndexOf(dy, dx) == IF dy \in -3 .. 3 /\ dx \in -3 .. 3 THEN CircleIndex[<<dy, dx>>] ELSE -1

\* The images: around the pixel (x, y) = (3, 3), the circle samples start .. start+len-1
\* (mod 16) hold arcval, the sample at index odd holds oddval, every other cell is Mid
FastLevels == {Mid - Step, Mid - FastThreshold, Mid, Mid + FastThreshold, Mid + Step}

FastImage(cols, start, len, arcval, odd, oddval) ==
    Grid(FastRows, cols,
         [rc \in Cells(FastRows, cols) |->
            LET i == CircleIndexOf(rc[1] - 3, rc[2] - 3)
            IN  IF i = -1 THEN Mid
                ELSE IF i = odd THEN oddval
                ELSE IF (i - start) % 16 < len THEN arcval
                ELSE Mid])

\* image[y + dy, x + dx] for circle index idx (0-based)
Sample(image, x, y, idx) ==
    image.px[<<y + bresenham_circle[idx + 1][1], x + bresenham_circle[idx + 1][2]>>]

IsBrighter(image, threshold, x, y, idx) ==
    Sample(image, x, y, idx) > image.px[<<y, x>>] + threshold

IsDarker(image, threshold, x, y, idx) ==
    Sample(image, x, y, idx) < image.px[<<y, x>>] - threshold

\* lines 102-114: the pre-filter on circle indices 0, 8, 4, 12
PreFilter(image, threshold, x, y) ==
    LET brighter == Cardinality({idx \in {0, 8, 4, 12} : IsBrighter(image, threshold, x, y, idx)})
        darker == Cardinality({idx \in {0, 8, 4, 12} :
                      ~IsBrighter(image, threshold, x, y, idx) /\ IsDarker(image, threshold, x, y, idx)})
    IN  brighter >= 3 \/ darker >= 3

\* line 118: the sample extends the run
ExtendsRun(image, threshold, x, y, idx) ==
    IsBrighter(image, threshold, x, y, idx) \/ IsDarker(image, threshold, x, y, idx)

RECURSIVE CircleWalk(_, _, _, _, _, _)
\* lines 115-124: the walk from circle index idx with sequential_count = count;
\* TRUE when the pixel is appended (the walk ends at index 15, it does not wrap)
CircleWalk(image, threshold, x, y, idx, count) ==
    IF idx = 16 THEN FALSE
    ELSE IF ExtendsRun(image, threshold, x, y, idx)
         THEN count + 1 >= 12 \/ CircleWalk(image, threshold, x, y, idx + 1, count + 1)
         ELSE CircleWalk(image, threshold, x, y, idx + 1, 0)

IsKeypoint(image, threshold, x, y) ==
    PreFilter(image, threshold, x, y) /\ CircleWalk(image, threshold, x, y, 0, 0)

RECURSIVE ScanPixels(_, _, _)
\* lines 99-100: the pixels k, k+1, ... of the interior in scan order (rows of y, then x)
ScanPixels(image, threshold, k) ==
    LET width == image.cols - 6
        height == image.rows - 6
    IN  IF width <= 0 \/ height <= 0 \/ k >= width * height THEN <<>>
        ELSE LET x == 3 + (k % width)
                 y == 3 + (k \div width)
                 rest == ScanPixels(image, threshold, k + 1)
             IN  IF IsKeypoint(image, threshold, x, y) THEN <<(<<x, y>>)>> \o rest ELSE rest

detect_fast(image, threshold) == ScanPixels(image, threshold, 0)

InitFast ==
    /\ fn = "detect_fast"
    /\ pc = "call"
    /\ \E cols \in 7 .. MaxFastCols, start \in 0 .. 15, len \in 10 .. 13,
          arcval \in {Mid - Step, Mid + Step}, odd \in 0 .. 15, oddval \in FastLevels :
            args = [image |-> FastImage(cols, start, len, arcval, odd, oddval),
                    threshold |-> FastThreshold]
    /\ ret = None
    /\ raised = "none"
    /\ random_points = <<>>
    /\ reads = {}

DetectFast ==
    /\ fn = "detect_fast"
    /\ pc = "call"
    /\ ret' = detect_fast(args.image, args.threshold)
    /\ pc' = "return"
    /\ UNCHANGED <<fn, args, raised, random_points, reads>>

NextFast == DetectFast

SpecFast == InitFast /\ [][NextFast]_vars

InteriorPixels(image) ==
    {xy \in (0 .. image.cols - 1) \X (0 .. image.rows - 1) :
        /\ 3 <= xy[1] /\ xy[1] < image.cols - 3
        /\ 3 <= xy[2] /\ xy[2] < image.rows - 3}

InSeq(s, e) == \E i \in 1 .. Len(s) : s[i] = e

\* a contiguous arc of 12 circle samples, from any start and around the circle
\* (index 15 is followed by index 0), all brighter or all darker
HasArc12(image, threshold, x, y) ==
    \E start \in 0 .. 15 :
        \/ \A k \in 0 .. 11 : IsBrighter(image, threshold, x, y, (start + k) % 16)
        \/ \A k \in 0 .. 11 : IsDarker(image, threshold, x, y, (start + k) % 16)

\* C1: every interior pixel whose circle holds a contiguous arc of at least 12 samples
\* all brighter than centre+threshold, or all darker than centre-threshold, is accepted,
\* wherever the arc lies on the circle, also across index 15 -> 0.
C1_ArcAccepted ==
    (fn = "detect_fast" /\ pc = "return") =>
        \A xy \in InteriorPixels(args.image) :
            HasArc12(args.image, args.threshold, xy[1], xy[2]) => InSeq(ret, xy)

\* C2: a pixel is accepted only if its circle holds a run of 12 consecutive samples of
\* one polarity (all brighter, or all darker); a run mixing the two never accepts.
C2_OnlyOnePolarityRun ==
    (fn = "detect_fast" /\ pc = "return") =>
        \A xy \in InteriorPixels(args.image) :
            InSeq(ret, xy) => HasArc12(args.image, args.threshold, xy[1], xy[2])

----------------------------------------------------------------------------
(* harris_detector(image, keypoints, k, threshold), lines 38-66.               *)
(* The weights of the Gaussian kernel (line 10) are not rational, so the call  *)
(* is modelled from line 52 on: Ixx, Iyy, Ixy are the three smoothed grids of  *)
(* lines 48-50, drawn from integer grids that a structure tensor can take      *)
(* (Ixx, Iyy >= 0 and Ixy^2 <= Ixx * Iyy in every cell).                       *)

HarrisKInv == 20    \* k = 0.05 = 1 / HarrisKInv (line 38)
HarrisDim == 2      \* the grids are HarrisDim x HarrisDim
MaxCand == 3        \* at most MaxCand candidates (repeats allowed)

\* <<Sxx, Syy, Sxy>> of a cell; the responses (times HarrisKInv) are 0, 64, 64, 144, -4
TensorSeq == << <<0, 0, 0>>, <<2, 2, 0>>, <<1, 5, 0>>, <<3, 3, 0>>, <<1, 1, 1>> >>

\* the thresholds, times HarrisKInv: 0 stands for the default 1e-5 (an integer response
\* exceeds 1e-5 exactly when it exceeds 0), 64 is a response some cells have exactly
HarrisThresholds == {0, 64}

\* the smoothed grids: cell (y, x) holds TensorSeq[(a * x + b * y) mod 5], component part
TensorGrid(a, b, part) ==
    Grid(HarrisDim, HarrisDim,
         [yx \in Cells(HarrisDim, HarrisDim) |->
            TensorSeq[((a * yx[2] + b * yx[1]) % Len(TensorSeq)) + 1][part]])

\* lines 55-60, times k's denominator: HarrisKInv * R = HarrisKInv * det - trace^2
ResponseAt(a, x, y) ==
    LET Sxx == a.Ixx.px[<<y, x>>]
        Syy == a.Iyy.px[<<y, x>>]
        Sxy == a.Ixy.px[<<y, x>>]
        det == Sxx * Syy - Sxy * Sxy
        trace == Sxx + Syy
    IN  HarrisKInv * det - trace * trace

\* a plausible slip: R >= threshold
AcceptOrEqual(R, threshold) == R >= threshold

\* line 62: if R > threshold (both times HarrisKInv)
Accept(R, threshold) == R > threshold

RECURSIVE FilterCandidates(_, _)
\* lines 52-63: filtered_keypoints after the candidates i, i+1, ... of a.keypoints
FilterCandidates(a, i) ==
    IF i > Len(a.keypoints) THEN <<>>
    ELSE LET x == a.keypoints[i][1]
             y == a.keypoints[i][2]
             R == ResponseAt(a, x, y)
             rest == FilterCandidates(a, i + 1)
         IN  IF Accept(R, a.threshold) THEN <<(<<x, y, R>>)>> \o rest ELSE rest

\* e put into the sequence s (sorted by descending s[i][3]) behind every entry whose key
\* is at least e's: sorted() is stable, and with reverse=True equal keys keep their order
InsertDescending(s, e) ==
    LET n == Cardinality({i \in 1 .. Len(s) : s[i][3] >= e[3]})
    IN  SubSeq(s, 1, n) \o <<e>> \o SubSeq(s, n + 1, Len(s))

RECURSIVE SortedDescending(_, _)
\* line 65: sorted(filtered_keypoints, key=lambda k: k[2], reverse=True), the first n entries
SortedDescending(s, n) ==
    IF n = 0 THEN <<>> ELSE InsertDescending(SortedDescending(s, n - 1), s[n])

\* lines 52-66
harris_detector(a) ==
    LET filtered_keypoints == FilterCandidates(a, 1)
        sorted == SortedDescending(filtered_keypoints, Len(filtered_keypoints))
    IN  [i \in 1 .. Len(sorted) |-> <<sorted[i][1], sorted[i][2]>>]

InitHarris ==
    /\ fn = "harris_detector"
    /\ pc = "call"
    /\ \E a \in 0 .. Len(TensorSeq) - 1, b \in 0 .. Len(TensorSeq) - 1,
          kps \in SeqsUpTo((0 .. HarrisDim - 1) \X (0 .. HarrisDim - 1), MaxCand),
          t \in HarrisThresholds :
            args = [Ixx |-> TensorGrid(a, b, 1), Iyy |-> TensorGrid(a, b, 2),
                    Ixy |-> TensorGrid(a, b, 3), keypoints |-> kps, threshold |-> t]
    /\ ret = None
    /\ raised = "none"
    /\ random_points = <<>>
    /\ reads = {}

HarrisFilter ==
    /\ fn = "harris_detector"
    /\ pc = "call"
    /\ ret' = harris_detector(args)
    /\ pc' = "return"
    /\ UNCHANGED <<fn, args, raised, random_points, reads>>

NextHarris == HarrisFilter

SpecHarris == InitHarris /\ [][NextHarris]_vars

Count(s, e) == Cardinality({i \in 1 .. Len(s) : s[i] = e})

\* R - threshold > 0 for the point xy = <<x, y>>, read at the cell (y, x)
ExceedsThreshold(xy) ==
    HarrisKInv * (args.Ixx.px[<<xy[2], xy[1]>>] * args.Iyy.px[<<xy[2], xy[1]>>]
                    - args.Ixy.px[<<xy[2], xy[1]>>] * args.Ixy.px[<<xy[2], xy[1]>>])
      - (args.Ixx.px[<<xy[2], xy[1]>>] + args.Iyy.px[<<xy[2], xy[1]>>])
          * (args.Ixx.px[<<xy[2], xy[1]>>] + args.Iyy.px[<<xy[2], xy[1]>>])
      - args.threshold

\* C3: harris_detector returns exactly the candidates whose response
\* R = Sxx*Syy - Sxy^2 - k*(Sxx+Syy)^2 at their own (y, x) cell is strictly greater than
\* the threshold, each once per occurrence in the input, in non-increasing order of R.
C3_HarrisKeepsAboveThresholdSorted ==
    (fn = "harris_detector" /\ pc = "return") =>
        /\ \A xy \in (0 .. HarrisDim - 1) \X (0 .. HarrisDim - 1) :
              Count(ret, xy) = IF ExceedsThreshold(xy) > 0 THEN Count(args.keypoints, xy) ELSE 0
        /\ \A i \in 1 .. Len(ret), j \in 1 .. Len(ret) :
              i < j => ExceedsThreshold(ret[i]) >= ExceedsThreshold(ret[j])

\* C3's case: three candidates; the first two are kept and come back in the other order
\* (the second has the larger response), the third sits exactly on the threshold and
\* is dropped
C3_Witness ==
    /\ fn = "harris_detector" /\ pc = "return"
    /\ Len(args.keypoints) = 3 /\ Len(ret) = 2
    /\ ret[1] = args.keypoints[2] /\ ret[2] = args.keypoints[1]
    /\ ExceedsThreshold(ret[1]) > ExceedsThreshold(ret[2])
    /\ ExceedsThreshold(args.keypoints[3]) = 0
    /\ args.keypoints[1][1] # args.keypoints[1][2]

----------------------------------------------------------------------------
(* Patches and angles, shared by calculate_orientation and brief_descriptor *)

MaxRadius == 2      \* radius is MaxRadius-1 or MaxRadius; patch_size = 2 * radius + 1
MaxKp == 2          \* at most MaxKp keypoints (repeats allowed)

\* numpy's reading of one bound i of a slice of an axis of length n: a negative bound
\* counts from the end, and the result is clipped to 0 .. n
SliceBound(i, n) == IF i < 0 THEN Max(i + n, 0) ELSE Min(i, n)

\* image[y-radius : y+radius+1, x-radius : x+radius+1] (lines 75 and 135): the patch,
\* with the image row and column of its first cell
ExtractPatch(image, x, y, radius) ==
    LET row0 == SliceBound(y - radius, image.rows)
        row1 == SliceBound(y + radius + 1, image.rows)
        col0 == SliceBound(x - radius, image.cols)
        col1 == SliceBound(x + radius + 1, image.cols)
        nrows == Max(row1 - row0, 0)
        ncols == Max(col1 - col0, 0)
    IN  [rows |-> nrows, cols |-> ncols, row0 |-> row0, col0 |-> col0,
         px |-> [rc \in Cells(nrows, ncols) |-> image.px[<<row0 + rc[1], col0 + rc[2]>>]]]

\* the image cells a patch was sliced from
PatchCells(patch) ==
    {<<patch.row0 + rc[1], patch.col0 + rc[2]>> : rc \in Cells(patch.rows, patch.cols)}

\* a plausible slip: only the height of the patch is compared
ShapeMismatchRowsOnly(patch, patch_size) == patch.rows # patch_size

\* patch.shape != (patch_size, patch_size) (lines 76 and 136)
ShapeMismatch(patch, patch_size) == patch.rows # patch_size \/ patch.cols # patch_size

\* the angle 0 (orientations.append(0), line 77)
Angle0 == <<1, 0>>

\* math.atan2(y, x): the angle of the vector (x, y), kept as its direction <<c, s>> in
\* lowest terms; atan2(0, 0) = 0
Atan2(y, x) ==
    IF x = 0 /\ y = 0 THEN Angle0
    ELSE LET g == GCD(Abs(x), Abs(y))
         IN  <<(IF x < 0 THEN -(Abs(x) \div g) ELSE x \div g),
               (IF y < 0 THEN -(Abs(y) \div g) ELSE y \div g)>>

\* keypoints are (x, y) pairs inside the image, at the border and around the centre
KeypointPool(rows, cols) ==
    (({0, cols \div 2 - 1, cols \div 2, cols - 1}) \cap (0 .. cols - 1))
        \X (({0, rows \div 2 - 1, rows \div 2, rows - 1}) \cap (0 .. rows - 1))

\* images: all 0 but for one cell of intensity 1 next to (or at) the centre; all 0;
\* and a ramp whose cells all differ
PatchImages(rows, cols) ==
    {Grid(rows, cols, [rc \in Cells(rows, cols) |-> IF rc = blob THEN 1 ELSE 0]) :
        blob \in ((rows \div 2 - 1 .. rows \div 2 + 1) \X (cols \div 2 - 1 .. cols \div 2 + 1))
                    \cap Cells(rows, cols)}
    \cup {Grid(rows, cols, [rc \in Cells(rows, cols) |-> 0]),
          Grid(rows, cols, [rc \in Cells(rows, cols) |-> rc[1] * cols + rc[2]])}

----------------------------------------------------------------------------
(* calculate_orientation(image, keypoints, patch_size), lines 69-85 *)

\* lines 80-82 for a patch: arange(-radius, radius+1)[:, None] weights a cell by its
\* row, arange(-radius, radius+1)[None, :] by its column
PatchAngle(patch, radius) ==
    LET m10 == SumCells(patch.rows, patch.cols,
                        [ij \in Cells(patch.rows, patch.cols) |-> patch.px[ij] * (ij[1] - radius)])
        m01 == SumCells(patch.rows, patch.cols,
                        [ij \in Cells(patch.rows, patch.cols) |-> patch.px[ij] * (ij[2] - radius)])
    IN  Atan2(m01, m10)

\* one pass of the loop of lines 74-83: the orientation appended for the keypoint (x, y)
OrientationOf(image, x, y, patch_size) ==
    LET radius == patch_size \div 2
        patch == ExtractPatch(image, x, y, radius)
    IN  IF ShapeMismatch(patch, patch_size) THEN Angle0 ELSE PatchAngle(patch, radius)

calculate_orientation(image, keypoints, patch_size) ==
    [i \in 1 .. Len(keypoints) |-> OrientationOf(image, keypoints[i][1], keypoints[i][2], patch_size)]

\* every cell sliced into a patch by the call
OrientationReads(image, keypoints, patch_size) ==
    UNION {PatchCells(ExtractPatch(image, keypoints[i][1], keypoints[i][2], patch_size \div 2)) :
             i \in 1 .. Len(keypoints)}

InitOrientation ==
    /\ fn = "calculate_orientation"
    /\ pc = "call"
    /\ \E rows \in {2 * MaxRadius, 2 * MaxRadius + 1}, cols \in {2 * MaxRadius + 1, 2 * MaxRadius + 2} :
         \E img \in PatchImages(rows, cols), kps \in SeqsUpTo(KeypointPool(rows, cols), MaxKp),
            radius \in {MaxRadius - 1, MaxRadius} :
              args = [image |-> img, keypoints |-> kps, patch_size |-> 2 * radius + 1]
    /\ ret = None
    /\ raised = "none"
    /\ random_points = <<>>
    /\ reads = {}

CalculateOrientation ==
    /\ fn = "calculate_orientation"
    /\ pc = "call"
    /\ ret' = calculate_orientation(args.image, args.keypoints, args.patch_size)
    /\ reads' = OrientationReads(args.image, args.keypoints, args.patch_size)
    /\ pc' = "return"
    /\ UNCHANGED <<fn, args, raised, random_points>>

NextOrientation == CalculateOrientation

SpecOrientation == InitOrientation /\ [][NextOrientation]_vars

\* the (2*radius+1)-square around (x, y) leaves the grid on some side
PatchLeavesGrid(image, x, y, radius) ==
    x < radius \/ y < radius \/ x + radius >= image.cols \/ y + radius >= image.rows

\* C4: one orientation per keypoint, at the keypoint's index; it is the sentinel 0 for
\* every keypoint whose patch would leave the grid on any side (x - radius or y - radius
\* negative included); no cell outside the grid is read as part of a patch.
C4_OnePerKeypointSentinelAtBorder ==
    (fn = "calculate_orientation" /\ pc = "return") =>
        /\ Len(ret) = Len(args.keypoints)
        /\ \A i \in 1 .. Len(args.keypoints) :
              PatchLeavesGrid(args.image, args.keypoints[i][1], args.keypoints[i][2],
                              args.patch_size \div 2)
                 => ret[i] = Angle0
        /\ reads \subseteq Cells(args.image.rows, args.image.cols)

\* C4's case: two keypoints; the first has x - radius < 0 and gets the sentinel, the
\* second has a full patch and an orientation that is not 0
C4_Witness ==
    /\ fn = "calculate_orientation" /\ pc = "return"
    /\ Len(args.keypoints) = 2 /\ Len(ret) = 2
    /\ args.keypoints[1][1] < args.patch_size \div 2
    /\ ret[1] = Angle0
    /\ ~PatchLeavesGrid(args.image, args.keypoints[2][1], args.keypoints[2][2], args.patch_size \div 2)
    /\ ret[2] # Angle0
    /\ reads # {}

\* the intensity of the image at column offset dx and row offset dy from (x, y)
Around(image, x, y, dx, dy) == image.px[<<y + dy, x + dx>>]

\* C5: for a keypoint with a full patch, m10 is the intensity sum weighted by column
\* offset, m01 the sum weighted by row offset, and the orientation is atan2(m01, m10):
\* intensity only to the right of the centre gives 0, only above or below gives +-pi/2.
C5_OrientationIsAtan2RowOverColumn ==
    (fn = "calculate_orientation" /\ pc = "return") =>
        \A i \in 1 .. Len(args.keypoints) :
            LET x == args.keypoints[i][1]
                y == args.keypoints[i][2]
                radius == args.patch_size \div 2
                \* the offsets <<dx, dy>> of the patch's cells from its centre
                offsets == [k \in 1 .. args.patch_size * args.patch_size |->
                              <<((k - 1) % args.patch_size) - radius,
                                ((k - 1) \div args.patch_size) - radius>>]
                lit == {offsets[k] : k \in {n \in 1 .. Len(offsets) :
                           Around(args.image, x, y, offsets[n][1], offsets[n][2]) # 0}}
                m10 == SumTo([k \in 0 .. Len(offsets) - 1 |->
                                 Around(args.image, x, y, offsets[k + 1][1], offsets[k + 1][2])
                                    * offsets[k + 1][1]], Len(offsets))
                m01 == SumTo([k \in 0 .. Len(offsets) - 1 |->
                                 Around(args.image, x, y, offsets[k + 1][1], offsets[k + 1][2])
                                    * offsets[k + 1][2]], Len(offsets))
            IN  ~PatchLeavesGrid(args.image, x, y, radius) =>
                  /\ ret[i] = Atan2(m01, m10)
                  /\ (lit # {} /\ \A d \in lit : d[1] > 0 /\ d[2] = 0) => ret[i] = <<1, 0>>
                  /\ (lit # {} /\ \A d \in lit : d[1] = 0 /\ d[2] # 0 /\ m01 # 0)
                        => ret[i] \in {<<0, 1>>, <<0, -1>>}

----------------------------------------------------------------------------
(* brief_descriptor(image, keypoints, orientations, patch_size, n), lines 128-155 *)

BriefN == 2         \* n, the number of bits of a descriptor

\* np.random.randint(-radius, radius, size=(n, 2)) (line 132): the draws considered are
\* the two ends of the range [-radius, radius) in each coordinate
RandomPointSets(radius, n) == [1 .. n -> {-radius, radius - 1} \X {-radius, radius - 1}]

\* the angles passed in orientations: 0 and pi/4
BriefAngles == {Angle0, <<1, 1>>}

\* keypoints: one at the corner (its patch is clipped) and the two around the centre
BriefKeypointPool(rows, cols) ==
    {<<0, 0>>, <<cols \div 2 - 1, rows \div 2>>, <<cols \div 2, rows \div 2>>}

\* images: all cells equal; a ramp whose cells all differ; one bright cell below the centre
BriefImages(rows, cols) ==
    {Grid(rows, cols, [rc \in Cells(rows, cols) |-> 1]),
     Grid(rows, cols, [rc \in Cells(rows, cols) |-> rc[1] * cols + rc[2]]),
     Grid(rows, cols, [rc \in Cells(rows, cols) |->
                          IF rc = <<rows \div 2 + 1, cols \div 2>> THEN 1 ELSE 0])}

\* u < m * sqrt(n2), for integers u, m and n2 > 0
LessThanRoot(u, m, n2) ==
    IF u < 0 /\ m >= 0 THEN TRUE
    ELSE IF u >= 0 /\ m <= 0 THEN FALSE
    ELSE IF u >= 0 THEN u * u < m * m * n2
    ELSE u * u > m * m * n2

\* np.round(num / sqrt(n2)).astype(int): the integer k with k - 1/2 <= num/sqrt(n2) < k + 1/2
\* (num/sqrt(n2) is never half an odd integer for a direction in lowest terms)
RoundOverRoot(num, n2) ==
    CHOOSE k \in -(Abs(num) + 1) .. (Abs(num) + 1) :
        ~LessThanRoot(2 * num, 2 * k - 1, n2) /\ LessThanRoot(2 * num, 2 * k + 1, n2)

\* lines 140-142: one row of random_points @ rotation_mat.T, rounded; the angle <<c, s>>
\* has cos = c / sqrt(c*c + s*s) and sin = s / sqrt(c*c + s*s)
RotatedPoint(point, angle) ==
    LET c == angle[1]
        s == angle[2]
        n2 == c * c + s * s
    IN  <<RoundOverRoot(point[1] * c - point[2] * s, n2),
          RoundOverRoot(point[1] * s + point[2] * c, n2)>>

\* a plausible slip: >= for >
BitForOrEqual(patch, patch_size, radius, dxy) ==
    LET px1 == radius + dxy[1]
        py1 == radius + dxy[2]
        px2 == radius - dxy[1]
        py2 == radius - dxy[2]
    IN  IF /\ 0 <= px1 /\ px1 < patch_size /\ 0 <= py1 /\ py1 < patch_size
           /\ 0 <= px2 /\ px2 < patch_size /\ 0 <= py2 /\ py2 < patch_size
        THEN (IF patch.px[<<py1, px1>>] >= patch.px[<<py2, px2>>] THEN 1 ELSE 0)
        ELSE 0

\* lines 146-151: the bit appended for the rotated pair dxy = <<dx, dy>>
BitFor(patch, patch_size, radius, dxy) ==
    LET px1 == radius + dxy[1]
        py1 == radius + dxy[2]
        px2 == radius - dxy[1]
        py2 == radius - dxy[2]
    IN  IF /\ 0 <= px1 /\ px1 < patch_size /\ 0 <= py1 /\ py1 < patch_size
           /\ 0 <= px2 /\ px2 < patch_size /\ 0 <= py2 /\ py2 < patch_size
        THEN (IF patch.px[<<py1, px1>>] > patch.px[<<py2, px2>>] THEN 1 ELSE 0)
        ELSE 0

\* lines 139-151: the descriptor of a full patch
Descriptor(patch, patch_size, angle, points) ==
    [b \in 1 .. Len(points) |-> BitFor(patch, patch_size, patch_size \div 2, RotatedPoint(points[b], angle))]

\* a plausible slip: a clipped keypoint contributes a row of zeros
DescriptorRowsZeroFilled(image, x, y, angle, patch_size, n, points) ==
    LET patch == ExtractPatch(image, x, y, patch_size \div 2)
    IN  IF ShapeMismatch(patch, patch_size) THEN << [b \in 1 .. n |-> 0] >>
        ELSE << Descriptor(patch, patch_size, angle, points) >>

\* one pass of the loop of lines 134-153: what the pass appends to descriptors
DescriptorRows(image, x, y, angle, patch_size, n, points) ==
    LET patch == ExtractPatch(image, x, y, patch_size \div 2)
    IN  IF ShapeMismatch(patch, patch_size) THEN <<>>
        ELSE LET descriptor == Descriptor(patch, patch_size, angle, points)
             IN  IF Len(descriptor) = n THEN <<descriptor>> ELSE <<>>

RECURSIVE ZipLoop(_, _, _)
\* lines 134-153 from the i-th pair of zip(keypoints, orientations) on: zip ends with the
\* shorter of the two sequences
ZipLoop(a, points, i) ==
    IF i > Min(Len(a.keypoints), Len(a.orientations)) THEN <<>>
    ELSE DescriptorRows(a.image, a.keypoints[i][1], a.keypoints[i][2], a.orientations[i],
                        a.patch_size, a.n, points)
            \o ZipLoop(a, points, i + 1)

\* lines 130-155; no check of the two lengths, no exception
brief_descriptor(a, points) == ZipLoop(a, points, 1)

InitBrief ==
    /\ fn = "brief_descriptor"
    /\ pc = "call"
    /\ \E img \in BriefImages(2 * MaxRadius + 1, 2 * MaxRadius + 2),
          kps \in SeqsUpTo(BriefKeypointPool(2 * MaxRadius + 1, 2 * MaxRadius + 2), MaxKp),
          oris \in SeqsUpTo(BriefAngles, MaxKp + 1),
          radius \in {MaxRadius - 1, MaxRadius} :
            /\ Len(oris) - Len(kps) \in {-1, 0, 1}
            /\ args = [image |-> img, keypoints |-> kps, orientations |-> oris,
                       patch_size |-> 2 * radius + 1, n |-> BriefN]
    /\ ret = None
    /\ raised = "none"
    /\ random_points = <<>>
    /\ reads = {}

BriefDescriptor ==
    /\ fn = "brief_descriptor"
    /\ pc = "call"
    /\ \E points \in RandomPointSets(args.patch_size \div 2, args.n) :
          /\ random_points' = points
          /\ ret' = brief_descriptor(args, points)
    /\ pc' = "return"
    /\ UNCHANGED <<fn, args, raised, reads>>

NextBrief == BriefDescriptor

SpecBrief == InitBrief /\ [][NextBrief]_vars

\* the indices of the keypoints whose patch lies inside the grid, in order
FullPatchIndices ==
    LET Inside(i) == ~PatchLeavesGrid(args.image, args.keypoints[i][1], args.keypoints[i][2],
                                      args.patch_size \div 2)
    IN  SelectSeq([i \in 1 .. Len(args.keypoints) |-> i], Inside)

PatchIntensity(x, y, px, py) ==
    args.image.px[<<y - (args.patch_size \div 2) + py, x - (args.patch_size \div 2) + px>>]

\* the bit C7 states for the rotated pair <<dx, dy>> of the keypoint (x, y)
ClaimedBit(x, y, dx, dy) ==
    LET radius == args.patch_size \div 2
        inside == /\ radius + dx \in 0 .. args.patch_size - 1
                  /\ radius + dy \in 0 .. args.patch_size - 1
                  /\ radius - dx \in 0 .. args.patch_size - 1
                  /\ radius - dy \in 0 .. args.patch_size - 1
    IN  IF inside /\ PatchIntensity(x, y, radius + dx, radius + dy)
                        > PatchIntensity(x, y, radius - dx, radius - dy)
        THEN 1 ELSE 0

\* the keypoint indices that zip pairs with an orientation and whose patch is full
PairedFullIndices ==
    LET Inside(i) == ~PatchLeavesGrid(args.image, args.keypoints[i][1], args.keypoints[i][2],
                                      args.patch_size \div 2)
    IN  SelectSeq([i \in 1 .. Min(Len(args.keypoints), Len(args.orientations)) |-> i], Inside)

\* the rotated pair of bit b of descriptor j lies outside the patch
BitOutsidePatch(j, b) ==
    LET d == RotatedPoint(random_points[b], args.orientations[PairedFullIndices[j]])
        radius == args.patch_size \div 2
    IN  \/ Abs(d[1]) > radius
        \/ Abs(d[2]) > radius

\* C7: for every rotated and rounded pair (dx, dy) of a full-patch keypoint the bit is 1
\* exactly when (radius+dx, radius+dy) and (radius-dx, radius-dy) both lie in the patch
\* and the intensity at the first is strictly greater; it is 0 otherwise; a position
\* outside the patch neither aborts the call nor shortens the descriptor.
C7_BitIsStrictComparisonInsidePatch ==
    (fn = "brief_descriptor" /\ pc = "return") =>
        /\ raised = "none"
        /\ Len(ret) = Len(PairedFullIndices)
        /\ \A j \in 1 .. Len(ret) :
              LET i == PairedFullIndices[j]
              IN  /\ Len(ret[j]) = args.n
                  /\ \A b \in 1 .. args.n :
                        LET d == RotatedPoint(random_points[b], args.orientations[i])
                        IN  ret[j][b] = ClaimedBit(args.keypoints[i][1], args.keypoints[i][2], d[1], d[2])

\* C7's case: a descriptor whose first pair is rotated out of the patch (bit 0) and whose
\* second pair lies inside it with the first intensity greater (bit 1)
C7_Witness ==
    /\ fn = "brief_descriptor" /\ pc = "return"
    /\ Len(ret) >= 1
    /\ BitOutsidePatch(1, 1) /\ ret[1][1] = 0
    /\ ~BitOutsidePatch(1, 2) /\ ret[1][2] = 1

\* C8: a call whose keypoints and orientations differ in length is rejected at entry,
\* before any descriptor is produced; no descriptors come back for a paired prefix.
C8_LengthMismatchRejected ==
    (/\ fn = "brief_descriptor" /\ pc = "return"
     /\ Len(args.keypoints) # Len(args.orientations))
        => raised # "none"

====
